---- MODULE Spec2Model ----
(***************************************************************************)
(* State-machine model of src/src/host_interface.c: the two vector         *)
(* multiply kernels, the benchmark driver run_performance_test, the        *)
(* scaling report show_scaling_performance and main.                       *)
(*                                                                         *)
(* Modelling decisions:                                                    *)
(*  - the heap is `mem` (contents of the four buffers of the current call  *)
(*    of run_performance_test) with `live` (the buffers currently          *)
(*    allocated); a buffer is a sequence, element i of the C array being   *)
(*    position i + 1 of the sequence (Elem); malloc is taken to succeed    *)
(*    (the source does not check its result);                              *)
(*  - a kernel call is one step; the initialisation loop, the timing       *)
(*    loops and the comparison loop advance one iteration per step;        *)
(*  - data_t is uint16_t: the product of two data_t is computed in a       *)
(*    32-bit signed int (integer promotion) and then truncated to 16 bits; *)
(*    a product above INT_MAX is signed overflow, which is undefined: the  *)
(*    stored value is then any of UBValues;                                *)
(*  - the values read from the clock are not modelled, only the sampling   *)
(*    events (clockSamples); the timing lines are printed without values;  *)
(*  - doubles in show_scaling_performance are exact rationals <<num, den>>;*)
(*    "%.2f" rounds to hundredths.                                         *)
(***************************************************************************)
EXTENDS Integers, Sequences, FiniteSets, TLC

VARIABLES
    pc,            \* position of the (single) thread of control
    ret,           \* where run_performance_test returns to
    vector_size,   \* parameter of the current run_performance_test call
    mem,           \* contents of the four buffers
    live,          \* buffers allocated and not yet freed
    mallocs,       \* per buffer: malloc calls in the current call
    frees,         \* per buffer: free calls in the current call
    fault,         \* TRUE once a buffer was accessed while not live
    i,             \* loop variable of the init and comparison loops
    j,             \* loop variable of the timing loops
    match,         \* the match flag (line 103)
    compared,      \* indices the comparison has read so far
    hwCalls,       \* hardware_vector_multiply calls in the current call
    swCalls,       \* software_vector_multiply calls in the current call
    clockSamples,  \* get_time_sec calls in the current call
    inputsRead,    \* the distinct input pairs the kernel calls have read
    size,          \* loop variable of show_scaling_performance
    out,           \* standard output, one element per printed line
    exitStatus     \* -1 while running, main's return value afterwards

vars == <<pc, ret, vector_size, mem, live, mallocs, frees, fault, i, j, match,
          compared, hwCalls, swCalls, clockSamples, inputsRead, size, out,
          exitStatus>>

----------------------------------------------------------------------------
(* Program constants *)

VECTOR_SIZE == 8
NUM_TESTS == 10000
LARGE_VECTOR_SIZE == 1024
SIMULATION_MODE == 1
\* data_t is uint16_t: values 0 .. DATA_MOD - 1
DATA_MOD == 65536
\* int is 32 bits wide
INT_MAX == 2147483647

(* Bounds of the harness specifications *)
MaxLen == 3       \* longest vector of the comparison harness
MaxSize == 2      \* driver harness: sizes 0 .. MaxSize and 100 .. 99 + MaxSize
MaxFault == 2     \* fault injection: indices within MaxFault of either end

Buffers == {"vector_a", "vector_b", "hw_result", "sw_result"}

\* malloc'ed memory holds indeterminate values until written
Indeterminate == -1

----------------------------------------------------------------------------
(* The multiply kernels *)

\* conversion of an int to data_t
ToData(x) == x % DATA_MOD

\* x * y on data_t operands is computed in int after integer promotion; a
\* product above INT_MAX overflows the int, which is undefined behaviour
Overflows(x, y) == y # 0 /\ x > INT_MAX \div y

\* (x * y) mod 2^16 for x, y < 2^16, computed without leaving 32 bits
Wrap16(x, y) ==
    (x * (y % 256) + 256 * ((x * (y \div 256)) % 256)) % DATA_MOD

\* what an overflowing product may leave in result[i]: the wrapped product
\* (two's-complement wrap-around, as most builds compute it) or some other
\* data_t value, of which the two extremes stand for all
UBValues(x, y) == {Wrap16(x, y), 0, DATA_MOD - 1}

\* element k (counted from 0, as in C) of buffer buf
Elem(buf, k) == buf[k + 1]

\* for (i = 0; i < size; i++) result[i] = vector_a[i] * vector_b[i];
\* the set of memories the loop may leave behind.  Position p is element
\* p - 1; <<>> \o s is s, held as a tuple, which TLC indexes in constant time
MultiplyLoop(m, va, vb, res, sz) ==
    LET a == <<>> \o m[va]
        b == <<>> \o m[vb]
        r == <<>> \o m[res]
        ov == {p \in 1 .. sz : Overflows(a[p], b[p])}
    IN  IF ov = {}
        THEN {[m EXCEPT ![res] = [p \in 1 .. Len(r) |->
                 IF p <= sz THEN ToData(a[p] * b[p]) ELSE r[p]]]}
        ELSE {[m EXCEPT ![res] = [p \in 1 .. Len(r) |->
                 IF p > sz THEN r[p]
                 ELSE IF p \in ov THEN f[p]
                 ELSE ToData(a[p] * b[p])]] :
                f \in {g \in [ov -> UNION {UBValues(a[p], b[p]) : p \in ov}] :
                         \A p \in ov : g[p] \in UBValues(a[p], b[p])}}

\* faulty variant: the simulated hardware only sleeps and leaves result unwritten
HardwareNoCompute(m, va, vb, res, sz) == {m}

hardware_vector_multiply(m, va, vb, res, sz) ==
    IF SIMULATION_MODE # 0
    THEN MultiplyLoop(m, va, vb, res, sz)   \* after usleep(1)
    ELSE MultiplyLoop(m, va, vb, res, sz)

\* faulty variant: the software kernel multiplies in place, into vector_a
SoftwareInPlace(m, va, vb, res, sz) == MultiplyLoop(m, va, vb, va, sz)

software_vector_multiply(m, va, vb, res, sz) ==
    MultiplyLoop(m, va, vb, res, sz)

----------------------------------------------------------------------------
(* C helpers *)

\* C's % truncates toward zero
CMod(x, y) == IF x >= 0 THEN x % y ELSE -((-x) % y)

\* faulty variant: vector_a[i] = i + 1, without the reduction modulo 100
InitA_NoMod(k) == ToData(k + 1)

\* lines 78-79
InitA(k) == ToData(CMod(k, 100) + 1)
InitB(n, k) == ToData(CMod(n - k, 100) + 1)

malloc(b, n) ==
    /\ mem' = [mem EXCEPT ![b] = [p \in 1 .. n |-> Indeterminate]]
    /\ live' = live \cup {b}
    /\ mallocs' = [mallocs EXCEPT ![b] = @ + 1]

free(b) ==
    /\ live' = live \ {b}
    /\ frees' = [frees EXCEPT ![b] = @ + 1]
    /\ fault' = (fault \/ b \notin live)

\* an access to buffers bs is a fault unless all of them are live
Access(bs) == fault' = (fault \/ ~(bs \subseteq live))

Printf(lines) == out' = out \o lines

NoMem == [vector_a |-> <<>>, vector_b |-> <<>>,
          hw_result |-> <<>>, sw_result |-> <<>>]

----------------------------------------------------------------------------
(* run_performance_test, lines 65-126 *)

heapVars == <<mem, live, mallocs, frees, fault>>
loopVars == <<i, j, match, compared>>
countVars == <<hwCalls, swCalls, clockSamples, inputsRead>>
mainVars == <<size, exitStatus>>

\* lines 67-70
MallocA ==
    /\ pc = "malloc_a"
    /\ malloc("vector_a", vector_size)
    /\ pc' = "malloc_b"
    /\ UNCHANGED <<ret, vector_size, frees, fault, loopVars, countVars,
                   mainVars, out>>

MallocB ==
    /\ pc = "malloc_b"
    /\ malloc("vector_b", vector_size)
    /\ pc' = "malloc_hw"
    /\ UNCHANGED <<ret, vector_size, frees, fault, loopVars, countVars,
                   mainVars, out>>

MallocHw ==
    /\ pc = "malloc_hw"
    /\ malloc("hw_result", vector_size)
    /\ pc' = "malloc_sw"
    /\ UNCHANGED <<ret, vector_size, frees, fault, loopVars, countVars,
                   mainVars, out>>

MallocSw ==
    /\ pc = "malloc_sw"
    /\ malloc("sw_result", vector_size)
    /\ pc' = "init_loop"
    /\ i' = 0
    /\ UNCHANGED <<ret, vector_size, frees, fault, j, match, compared,
                   countVars, mainVars, out>>

\* lines 76-80, one iteration per step
InitLoop ==
    /\ pc = "init_loop"
    /\ IF i < vector_size
       THEN /\ mem' = [mem EXCEPT !["vector_a"][i + 1] = InitA(i),
                                  !["vector_b"][i + 1] = InitB(vector_size, i)]
            /\ Access({"vector_a", "vector_b"})
            /\ i' = i + 1
            /\ pc' = "init_loop"
       ELSE /\ pc' = "hw_start"
            /\ UNCHANGED <<mem, fault, i>>
    /\ UNCHANGED <<ret, vector_size, live, mallocs, frees, j, match, compared,
                   countVars, mainVars, out>>

\* get_time_sec, lines 57-62: one sample of the monotonic clock
get_time_sec == clockSamples' = clockSamples + 1

\* line 83
HwStart ==
    /\ pc = "hw_start"
    /\ get_time_sec
    /\ j' = 0
    /\ pc' = "hw_loop"
    /\ UNCHANGED <<ret, vector_size, heapVars, i, match, compared, hwCalls,
                   swCalls, inputsRead, mainVars, out>>

\* faulty variant: the hardware batch runs while j <= NUM_TESTS
HwLoopOffByOne ==
    /\ pc = "hw_loop"
    /\ IF j <= NUM_TESTS
       THEN /\ mem' \in hardware_vector_multiply(mem, "vector_a", "vector_b",
                                                    "hw_result", vector_size)
            /\ inputsRead' = inputsRead \cup {<<mem.vector_a, mem.vector_b>>}
            /\ Access({"vector_a", "vector_b", "hw_result"})
            /\ hwCalls' = hwCalls + 1
            /\ j' = j + 1
            /\ pc' = "hw_loop"
       ELSE /\ pc' = "hw_end"
            /\ UNCHANGED <<mem, fault, hwCalls, inputsRead, j>>
    /\ UNCHANGED <<ret, vector_size, live, mallocs, frees, i, match, compared,
                   swCalls, clockSamples, mainVars, out>>

\* lines 84-87, one kernel call per step
HwLoop ==
    /\ pc = "hw_loop"
    /\ IF j < NUM_TESTS
       THEN /\ mem' \in hardware_vector_multiply(mem, "vector_a", "vector_b",
                                                    "hw_result", vector_size)
            /\ inputsRead' = inputsRead \cup {<<mem.vector_a, mem.vector_b>>}
            /\ Access({"vector_a", "vector_b", "hw_result"})
            /\ hwCalls' = hwCalls + 1
            /\ j' = j + 1
            /\ pc' = "hw_loop"
       ELSE /\ pc' = "hw_end"
            /\ UNCHANGED <<mem, fault, hwCalls, inputsRead, j>>
    /\ UNCHANGED <<ret, vector_size, live, mallocs, frees, i, match, compared,
                   swCalls, clockSamples, mainVars, out>>

\* lines 88-90
HwEnd ==
    /\ pc = "hw_end"
    /\ get_time_sec
    /\ pc' = "sw_start"
    /\ UNCHANGED <<ret, vector_size, heapVars, loopVars, hwCalls, swCalls,
                   inputsRead, mainVars, out>>

\* line 93
SwStart ==
    /\ pc = "sw_start"
    /\ get_time_sec
    /\ j' = 0
    /\ pc' = "sw_loop"
    /\ UNCHANGED <<ret, vector_size, heapVars, i, match, compared, hwCalls,
                   swCalls, inputsRead, mainVars, out>>

\* lines 94-97, one kernel call per step
SwLoop ==
    /\ pc = "sw_loop"
    /\ IF j < NUM_TESTS
       THEN /\ mem' \in software_vector_multiply(mem, "vector_a", "vector_b",
                                                    "sw_result", vector_size)
            /\ inputsRead' = inputsRead \cup {<<mem.vector_a, mem.vector_b>>}
            /\ Access({"vector_a", "vector_b", "sw_result"})
            /\ swCalls' = swCalls + 1
            /\ j' = j + 1
            /\ pc' = "sw_loop"
       ELSE /\ pc' = "sw_end"
            /\ UNCHANGED <<mem, fault, swCalls, inputsRead, j>>
    /\ UNCHANGED <<ret, vector_size, live, mallocs, frees, i, match, compared,
                   hwCalls, clockSamples, mainVars, out>>

\* lines 98-100
SwEnd ==
    /\ pc = "sw_end"
    /\ get_time_sec
    /\ pc' = "cmp_init"
    /\ UNCHANGED <<ret, vector_size, heapVars, loopVars, hwCalls, swCalls,
                   inputsRead, mainVars, out>>

\* lines 103-104
CmpInit ==
    /\ pc = "cmp_init"
    /\ match' = 1
    /\ i' = 0
    /\ pc' = "cmp_loop"
    /\ UNCHANGED <<ret, vector_size, heapVars, j, compared, countVars,
                   mainVars, out>>

\* line 109
MismatchLine(k, hw, sw) == <<"Mismatch at index", k, hw, sw>>

\* faulty variant: the comparison goes on after a mismatch (no break)
CmpLoopNoBreak ==
    /\ pc = "cmp_loop"
    /\ IF i < vector_size
       THEN /\ Access({"hw_result", "sw_result"})
            /\ compared' = compared \cup {i}
            /\ i' = i + 1
            /\ pc' = "cmp_loop"
            /\ IF Elem(mem["hw_result"], i) # Elem(mem["sw_result"], i)
               THEN /\ match' = 0
                    /\ Printf(<<MismatchLine(i, Elem(mem["hw_result"], i),
                                             Elem(mem["sw_result"], i))>>)
               ELSE UNCHANGED <<match, out>>
       ELSE /\ pc' = "report"
            /\ UNCHANGED <<fault, compared, match, out, i>>
    /\ UNCHANGED <<ret, vector_size, mem, live, mallocs, frees, j, countVars,
                   mainVars>>

\* faulty variant: a mismatch ends the program with exit(1)
CmpLoopAbort ==
    /\ pc = "cmp_loop"
    /\ IF i < vector_size
       THEN /\ Access({"hw_result", "sw_result"})
            /\ compared' = compared \cup {i}
            /\ IF Elem(mem["hw_result"], i) # Elem(mem["sw_result"], i)
               THEN /\ match' = 0
                    /\ Printf(<<MismatchLine(i, Elem(mem["hw_result"], i),
                                             Elem(mem["sw_result"], i))>>)
                    /\ pc' = "done"
                    /\ exitStatus' = 1
                    /\ i' = i
               ELSE /\ i' = i + 1
                    /\ pc' = "cmp_loop"
                    /\ UNCHANGED <<match, out, exitStatus>>
       ELSE /\ pc' = "report"
            /\ UNCHANGED <<fault, compared, match, out, i, exitStatus>>
    /\ UNCHANGED <<ret, vector_size, mem, live, mallocs, frees, j, countVars,
                   size>>

\* faulty variant: a mismatch returns at once, without the report and the frees
CmpLoopEarlyReturn ==
    /\ pc = "cmp_loop"
    /\ IF i < vector_size
       THEN /\ Access({"hw_result", "sw_result"})
            /\ compared' = compared \cup {i}
            /\ IF Elem(mem["hw_result"], i) # Elem(mem["sw_result"], i)
               THEN /\ match' = 0
                    /\ Printf(<<MismatchLine(i, Elem(mem["hw_result"], i),
                                             Elem(mem["sw_result"], i))>>)
                    /\ pc' = "return"
                    /\ i' = i
               ELSE /\ i' = i + 1
                    /\ pc' = "cmp_loop"
                    /\ UNCHANGED <<match, out>>
       ELSE /\ pc' = "report"
            /\ UNCHANGED <<fault, compared, match, out, i>>
    /\ UNCHANGED <<ret, vector_size, mem, live, mallocs, frees, j, countVars,
                   mainVars>>

\* lines 104-112, one iteration per step
CmpLoop ==
    /\ pc = "cmp_loop"
    /\ IF i < vector_size
       THEN /\ Access({"hw_result", "sw_result"})
            /\ compared' = compared \cup {i}
            /\ IF Elem(mem["hw_result"], i) # Elem(mem["sw_result"], i)
               THEN /\ match' = 0
                    /\ Printf(<<MismatchLine(i, Elem(mem["hw_result"], i),
                                             Elem(mem["sw_result"], i))>>)
                    /\ pc' = "report"       \* break
                    /\ i' = i
               ELSE /\ i' = i + 1
                    /\ pc' = "cmp_loop"
                    /\ UNCHANGED <<match, out>>
       ELSE /\ pc' = "report"
            /\ UNCHANGED <<fault, compared, match, out, i>>
    /\ UNCHANGED <<ret, vector_size, mem, live, mallocs, frees, j, countVars,
                   mainVars>>

ReportLines(n, m) ==
    << <<"Vector Size", n>>,
       <<"Hardware time">>,
       <<"Software time">>,
       <<"Speedup">>,
       <<"Results", IF m # 0 THEN "match" ELSE "do not match">> >>

\* lines 115-119
Report ==
    /\ pc = "report"
    /\ Printf(ReportLines(vector_size, match))
    /\ pc' = "free_a"
    /\ UNCHANGED <<ret, vector_size, heapVars, loopVars, countVars, mainVars>>

\* lines 122-125
FreeA ==
    /\ pc = "free_a"
    /\ free("vector_a")
    /\ pc' = "free_b"
    /\ UNCHANGED <<ret, vector_size, mem, mallocs, loopVars, countVars,
                   mainVars, out>>

FreeB ==
    /\ pc = "free_b"
    /\ free("vector_b")
    /\ pc' = "free_hw"
    /\ UNCHANGED <<ret, vector_size, mem, mallocs, loopVars, countVars,
                   mainVars, out>>

FreeHw ==
    /\ pc = "free_hw"
    /\ free("hw_result")
    /\ pc' = "free_sw"
    /\ UNCHANGED <<ret, vector_size, mem, mallocs, loopVars, countVars,
                   mainVars, out>>

FreeSw ==
    /\ pc = "free_sw"
    /\ free("sw_result")
    /\ pc' = "return"
    /\ UNCHANGED <<ret, vector_size, mem, mallocs, loopVars, countVars,
                   mainVars, out>>

\* line 126
Return ==
    /\ pc = "return"
    /\ pc' = ret
    /\ UNCHANGED <<ret, vector_size, heapVars, loopVars, countVars, mainVars,
                   out>>

\* the state of the locals and of the heap on entry to run_performance_test
EnterCall(n, r) ==
    /\ pc' = "malloc_a"
    /\ ret' = r
    /\ vector_size' = n
    /\ mem' = NoMem
    /\ live' = {}
    /\ mallocs' = [b \in Buffers |-> 0]
    /\ frees' = [b \in Buffers |-> 0]
    /\ i' = 0
    /\ j' = 0
    /\ match' = 1
    /\ compared' = {}
    /\ hwCalls' = 0
    /\ swCalls' = 0
    /\ clockSamples' = 0
    /\ inputsRead' = {}

----------------------------------------------------------------------------
(* show_scaling_performance, lines 129-151 *)

\* doubles as exact rationals <<numerator, denominator>>
RatOfInt(n) == <<n, 1>>
RatAdd(p, q) == <<p[1] * q[2] + q[1] * p[2], p[2] * q[2]>>
RatDiv(p, q) == <<p[1] * q[2], p[2] * q[1]>>

\* faulty variant: 8 / size computed in int
TheoreticalSpeedupIntDiv(s) ==
    RatDiv(RatOfInt(s), RatAdd(RatOfInt(1), RatOfInt(8 \div s)))

\* line 143: size / (1.0 + 8.0 / size)
TheoreticalSpeedup(s) ==
    RatDiv(RatOfInt(s), RatAdd(RatOfInt(1), RatDiv(RatOfInt(8), RatOfInt(s))))

\* "%.2f": the value in hundredths, rounded to nearest
Fmt2(q) ==
    100 * (q[1] \div q[2]) + (200 * (q[1] % q[2]) + q[2]) \div (2 * q[2])

TableRow(s) == <<"row", s, Fmt2(TheoreticalSpeedup(s))>>

ScalingHeader ==
    << <<"">>, <<"Scaling Performance (simulated):">>, <<"rule">>,
       <<"| Vector Size | Speedup   |">>, <<"rule">> >>
ScalingFooter ==
    << <<"rule">>, <<"">>,
       <<"Note: This shows theoretical scaling based on">>,
       <<"parallelism. Actual hardware would have additional">>,
       <<"factors like memory bandwidth and transfer overhead.">> >>

\* lines 131-134 and the loop initialisation of line 139
ScalingStart ==
    /\ pc = "scaling_start"
    /\ Printf(ScalingHeader)
    /\ size' = 8
    /\ pc' = "scaling_loop"
    /\ UNCHANGED <<ret, vector_size, heapVars, loopVars, countVars, exitStatus>>

\* lines 139-150, one iteration per step
ScalingLoop ==
    /\ pc = "scaling_loop"
    /\ IF size <= 4096
       THEN /\ Printf(<<TableRow(size)>>)
            /\ size' = size * 2
            /\ pc' = "scaling_loop"
       ELSE /\ Printf(ScalingFooter)
            /\ pc' = "main_return"
            /\ UNCHANGED size
    /\ UNCHANGED <<ret, vector_size, heapVars, loopVars, countVars, exitStatus>>

----------------------------------------------------------------------------
(* main, lines 153-170 *)

MainHeader == << <<"Vector Multiplication Performance Test">>,
                 <<"======================================">>, <<"">> >>
RunningLine(what, n) == <<"Running tests with", what, n>>

\* faulty variant: main runs the large benchmark first
MainCallLargeFirst ==
    /\ pc = "main_start"
    /\ Printf(MainHeader \o <<RunningLine("large", LARGE_VECTOR_SIZE)>>)
    /\ EnterCall(LARGE_VECTOR_SIZE, "main_after_small")
    /\ UNCHANGED <<fault, mainVars>>

\* lines 155-160
MainCallSmall ==
    /\ pc = "main_start"
    /\ Printf(MainHeader \o <<RunningLine("standard", VECTOR_SIZE)>>)
    /\ EnterCall(VECTOR_SIZE, "main_after_small")
    /\ UNCHANGED <<fault, mainVars>>

\* lines 163-164
MainCallLarge ==
    /\ pc = "main_after_small"
    /\ Printf(<<RunningLine("large", LARGE_VECTOR_SIZE)>>)
    /\ EnterCall(LARGE_VECTOR_SIZE, "main_after_large")
    /\ UNCHANGED <<fault, mainVars>>

\* line 167
MainCallScaling ==
    /\ pc = "main_after_large"
    /\ pc' = "scaling_start"
    /\ UNCHANGED <<ret, vector_size, heapVars, loopVars, countVars, mainVars,
                   out>>

\* line 169
MainReturn ==
    /\ pc = "main_return"
    /\ exitStatus' = 0
    /\ pc' = "done"
    /\ UNCHANGED <<ret, vector_size, heapVars, loopVars, countVars, size, out>>

----------------------------------------------------------------------------
(* Specification of the whole program *)

Init ==
    /\ pc = "main_start"
    /\ ret = "none"
    /\ vector_size = 0
    /\ mem = NoMem
    /\ live = {}
    /\ mallocs = [b \in Buffers |-> 0]
    /\ frees = [b \in Buffers |-> 0]
    /\ fault = FALSE
    /\ i = 0
    /\ j = 0
    /\ match = 1
    /\ compared = {}
    /\ hwCalls = 0
    /\ swCalls = 0
    /\ clockSamples = 0
    /\ inputsRead = {}
    /\ size = 0
    /\ out = <<>>
    /\ exitStatus = -1

DriverNext ==
    \/ MallocA
    \/ MallocB
    \/ MallocHw
    \/ MallocSw
    \/ InitLoop
    \/ HwStart
    \/ HwLoop
    \/ HwEnd
    \/ SwStart
    \/ SwLoop
    \/ SwEnd
    \/ CmpInit
    \/ CmpLoop
    \/ Report
    \/ FreeA
    \/ FreeB
    \/ FreeHw
    \/ FreeSw
    \/ Return

ScalingNext ==
    \/ ScalingStart
    \/ ScalingLoop

Next ==
    \/ MainCallSmall
    \/ MainCallLarge
    \/ MainCallScaling
    \/ MainReturn
    \/ DriverNext
    \/ ScalingNext

Spec == Init /\ [][Next]_vars

----------------------------------------------------------------------------
(* Harness: run_performance_test(n) called with sizes other than main's  *)

InputA(n) == [p \in 1 .. n |-> InitA(p - 1)]
InputB(n) == [p \in 1 .. n |-> InitB(n, p - 1)]

\* the state at line 103 of a call with size n that returns to r, with
\* result buffers hw and sw and with o printed so far
AtCompare(n, r, hw, sw, o) ==
    /\ pc = "cmp_init"
    /\ ret = r
    /\ vector_size = n
    /\ mem = [vector_a |-> InputA(n), vector_b |-> InputB(n),
              hw_result |-> hw, sw_result |-> sw]
    /\ live = Buffers
    /\ mallocs = [b \in Buffers |-> 1]
    /\ frees = [b \in Buffers |-> 0]
    /\ fault = FALSE
    /\ i = n
    /\ j = NUM_TESTS
    /\ match = 1
    /\ compared = {}
    /\ hwCalls = NUM_TESTS
    /\ swCalls = NUM_TESTS
    /\ clockSamples = 4
    /\ inputsRead = {<<InputA(n), InputB(n)>>}
    /\ size = 0
    /\ out = o
    /\ exitStatus = -1

DriverSizes == (0 .. MaxSize) \cup {99 + k : k \in 1 .. MaxSize}

InitDriver ==
    /\ pc = "malloc_a"
    /\ ret = "harness"
    /\ vector_size \in DriverSizes
    /\ mem = NoMem
    /\ live = {}
    /\ mallocs = [b \in Buffers |-> 0]
    /\ frees = [b \in Buffers |-> 0]
    /\ fault = FALSE
    /\ i = 0
    /\ j = 0
    /\ match = 1
    /\ compared = {}
    /\ hwCalls = 0
    /\ swCalls = 0
    /\ clockSamples = 0
    /\ inputsRead = {}
    /\ size = 0
    /\ out = <<>>
    /\ exitStatus = -1

SpecDriver == InitDriver /\ [][DriverNext]_vars

----------------------------------------------------------------------------
(* Harness: the comparison of lines 102-112 entered with arbitrary result  *)
(* buffers                                                                 *)

CmpVals == {0, 1, DATA_MOD - 1}

InitCompare ==
    \E n \in 0 .. MaxLen :
      \E hw, sw \in [1 .. n -> CmpVals] :
         AtCompare(n, "harness", hw, sw, <<>>)

NextCompare ==
    \/ CmpInit
    \/ CmpLoop
    \/ Report
    \/ FreeA
    \/ FreeB
    \/ FreeHw
    \/ FreeSw
    \/ Return

SpecCompare == InitCompare /\ [][NextCompare]_vars

----------------------------------------------------------------------------
(* The program, entered also at the comparison of its second benchmark     *)

\* what the software kernel leaves in sw_result for the driver's inputs
ResultOf(n) ==
    LET m0 == [vector_a |-> InputA(n), vector_b |-> InputB(n),
               hw_result |-> [p \in 1 .. n |-> Indeterminate],
               sw_result |-> [p \in 1 .. n |-> Indeterminate]]
        m1 == CHOOSE m \in software_vector_multiply(m0, "vector_a", "vector_b",
                                                    "sw_result", n) : TRUE
    IN  m1.sw_result

OutBeforeSmall == MainHeader \o <<RunningLine("standard", VECTOR_SIZE)>>
OutBeforeLarge ==
    OutBeforeSmall \o ReportLines(VECTOR_SIZE, 1)
                   \o <<RunningLine("large", LARGE_VECTOR_SIZE)>>

\* the state of main at line 103 of run_performance_test(LARGE_VECTOR_SIZE)
InitLargeCompare ==
    AtCompare(LARGE_VECTOR_SIZE, "main_after_large",
              ResultOf(LARGE_VECTOR_SIZE), ResultOf(LARGE_VECTOR_SIZE),
              OutBeforeLarge)

\* Spec's behaviours, and those that start where Spec's behaviour stands
\* after the 20,000 kernel calls on the large vectors.  MainAtLargeCompare
\* below is an invariant of both, so SpecMain has the reachable states of
\* Spec, and the end of the program a short way from an initial state.
InitMain == Init \/ InitLargeCompare

SpecMain == InitMain /\ [][Next]_vars

----------------------------------------------------------------------------
(* Harness: main, entered also with a fault injected into hw_result before *)
(* a comparison                                                            *)

\* r with element f (counted from 0) off by one
Faulty(r, f) == [r EXCEPT ![f + 1] = ToData(@ + 1)]

FaultIdx(n) == {k \in 0 .. n - 1 : k < MaxFault \/ k >= n - MaxFault}

InitMismatch ==
    \/ InitMain
    \/ AtCompare(VECTOR_SIZE, "main_after_small",
                 Faulty(ResultOf(VECTOR_SIZE), VECTOR_SIZE - 1),
                 ResultOf(VECTOR_SIZE), OutBeforeSmall)
    \/ \E f \in FaultIdx(LARGE_VECTOR_SIZE) :
          AtCompare(LARGE_VECTOR_SIZE, "main_after_large",
                    Faulty(ResultOf(LARGE_VECTOR_SIZE), f),
                    ResultOf(LARGE_VECTOR_SIZE), OutBeforeLarge)

SpecMismatch == InitMismatch /\ [][Next]_vars

----------------------------------------------------------------------------
(* Harness: the two kernels on arbitrary data_t vectors *)

MaxKernelLen == 2

\* 3 * 46341 exceeds 16 bits; 46340^2 <= INT_MAX < 46341^2
KernelVals == {0, 3, 46340, 46341, DATA_MOD - 1}

InitKernel ==
    \E n \in 0 .. MaxKernelLen :
      \E a, b \in [1 .. n -> KernelVals] :
        /\ pc = "kernel"
        /\ ret = "harness"
        /\ vector_size = n
        /\ mem = [vector_a |-> a, vector_b |-> b,
                  hw_result |-> [p \in 1 .. n |-> Indeterminate],
                  sw_result |-> [p \in 1 .. n |-> Indeterminate]]
        /\ live = Buffers
        /\ mallocs = [x \in Buffers |-> 1]
        /\ frees = [x \in Buffers |-> 0]
        /\ fault = FALSE
        /\ i = 0
        /\ j = 0
        /\ match = 1
        /\ compared = {}
        /\ hwCalls = 0
        /\ swCalls = 0
        /\ clockSamples = 0
        /\ inputsRead = {}
        /\ size = 0
        /\ out = <<>>
        /\ exitStatus = -1

KernelHw ==
    /\ pc = "kernel"
    /\ hwCalls = 0
    /\ mem' \in hardware_vector_multiply(mem, "vector_a", "vector_b",
                                         "hw_result", vector_size)
    /\ hwCalls' = 1
    /\ UNCHANGED <<pc, ret, vector_size, live, mallocs, frees, fault, loopVars,
                   swCalls, clockSamples, inputsRead, mainVars, out>>

KernelSw ==
    /\ pc = "kernel"
    /\ swCalls = 0
    /\ mem' \in software_vector_multiply(mem, "vector_a", "vector_b",
                                         "sw_result", vector_size)
    /\ swCalls' = 1
    /\ UNCHANGED <<pc, ret, vector_size, live, mallocs, frees, fault, loopVars,
                   hwCalls, clockSamples, inputsRead, mainVars, out>>

NextKernel ==
    \/ KernelHw
    \/ KernelSw

SpecKernel == InitKernel /\ [][NextKernel]_vars
----------------------------------------------------------------------------
(* Properties *)

Min(S) == CHOOSE x \in S : \A y \in S : x <= y
Abs(x) == IF x >= 0 THEN x ELSE -x

IsMismatchLine(l) == l[1] = "Mismatch at index"
IsRow(l) == l[1] = "row"
IsStepLine(l) ==
    l[1] \in {"Running tests with", "Vector Size",
              "Scaling Performance (simulated):"}
IsStatusLine(l) == l[1] \in {"Vector Size", "Results"}

MismatchLines == SelectSeq(out, IsMismatchLine)
Rows == SelectSeq(out, IsRow)
Steps == SelectSeq(out, IsStepLine)

IsPrefix(s, t) ==
    /\ Len(s) <= Len(t)
    /\ \A k \in 1 .. Len(s) : s[k] = t[k]

\* the positions at which all four buffers are allocated and initialised
PostInit == {"hw_start", "hw_loop", "hw_end", "sw_start", "sw_loop",
             "sw_end", "cmp_init", "cmp_loop", "report", "free_a"}

\* the positions after the comparison loop
AfterCompare == {"report", "free_a", "free_b", "free_hw", "free_sw",
                 "return", "harness"}

\* the positions outside run_performance_test, after a call of it
AfterCall == {"return", "harness", "main_after_small", "main_after_large",
              "scaling_start", "scaling_loop", "main_return", "done"}

\* The initial states of the harnesses at line 103 have the shape of the
\* program's own states there (an invariant of Spec and of SpecDriver).
HarnessShape ==
    pc = "cmp_init" =>
        AtCompare(vector_size, ret, ResultOf(vector_size),
                  ResultOf(vector_size), out)

\* The one state in which main stands at line 103 of its second benchmark
\* is InitLargeCompare (an invariant of Spec and of SpecMain).
MainAtLargeCompare ==
    pc = "cmp_init" /\ ret = "main_after_large" => InitLargeCompare

(* C1: after hardware_vector_multiply(a, b, result, n), and after          *)
(* software_vector_multiply(a, b, result, n), result[i] is                 *)
(* (a[i] * b[i]) mod 65536 for every i in [0, n), for all vectors a, b of  *)
(* unsigned 16-bit values.                                                 *)
C1_KernelsWrap ==
    \A k \in 0 .. vector_size - 1 :
        /\ hwCalls > 0 =>
             Elem(mem.hw_result, k) =
                Wrap16(Elem(mem.vector_a, k), Elem(mem.vector_b, k))
        /\ swCalls > 0 =>
             Elem(mem.sw_result, k) =
                Wrap16(Elem(mem.vector_a, k), Elem(mem.vector_b, k))

(* C2: in run_performance_test the two kernels have produced identical     *)
(* outputs when the comparison starts and while it runs, no mismatch line  *)
(* is ever printed, and the benchmarks at sizes 8 and 1024 both print      *)
(* "Results match".                                                        *)
C2_KernelsAgree ==
    /\ pc \in {"cmp_init", "cmp_loop"} =>
          /\ mem.hw_result = mem.sw_result
          /\ Len(mem.hw_result) = vector_size
          /\ \A k \in 0 .. vector_size - 1 :
                Elem(mem.hw_result, k) # Indeterminate
    /\ MismatchLines = <<>>
    /\ match = 1
    /\ pc \in {"main_after_large", "done"} =>
          SelectSeq(out, IsStatusLine) =
             << <<"Vector Size", 8>>, <<"Results", "match">>,
                <<"Vector Size", 1024>>, <<"Results", "match">> >>

C2_Witness ==
    /\ pc = "done"
    /\ Len(SelectSeq(out, IsStatusLine)) = 4
    /\ compared = 0 .. 1023

(* C3: in run_performance_test(n), after the initialisation,               *)
(* a[i] = (i mod 100) + 1 and b[i] = ((n - i) mod 100) + 1 for every i in  *)
(* [0, n); both lie in 1..100, the product is at most 10000, and each      *)
(* result the kernels store is the exact product.                          *)
C3_InputsInRange ==
    /\ pc = "init_loop" =>
          \A k \in 0 .. i - 1 :
              /\ Elem(mem.vector_a, k) = (k % 100) + 1
              /\ Elem(mem.vector_b, k) = ((vector_size - k) % 100) + 1
    /\ pc \in PostInit =>
          LET va == <<>> \o mem.vector_a
              vb == <<>> \o mem.vector_b
              hw == <<>> \o mem.hw_result
              sw == <<>> \o mem.sw_result
          IN  \A k \in 0 .. vector_size - 1 :
                 LET a == Elem(va, k)
                     b == Elem(vb, k)
                 IN  /\ a = (k % 100) + 1
                     /\ b = ((vector_size - k) % 100) + 1
                     /\ a \in 1 .. 100
                     /\ b \in 1 .. 100
                     /\ a * b <= 10000
                     /\ hwCalls > 0 => Elem(hw, k) = a * b
                     /\ swCalls > 0 => Elem(sw, k) = a * b

C3_Witness ==
    /\ pc = "cmp_init"
    /\ vector_size > 100
    /\ Elem(mem.vector_a, 100) = 1
    /\ Elem(mem.vector_b, 0) = (vector_size % 100) + 1
    /\ Elem(mem.hw_result, 99) = 100 * Elem(mem.vector_b, 99)

(* C4: after the comparison loop, for any contents of hw_result and        *)
(* sw_result, the match flag is false iff some index differs; then exactly *)
(* one mismatch line is printed, with the smallest differing index and the *)
(* two values there, and no later index is compared.                       *)
C4_Differ == {k \in 0 .. vector_size - 1 :
                 Elem(mem.hw_result, k) # Elem(mem.sw_result, k)}

C4_Comparison ==
    /\ pc = "cmp_loop" =>
          /\ compared = 0 .. i - 1
          /\ \A k \in 0 .. i - 1 : k \notin C4_Differ
          /\ match = 1
          /\ MismatchLines = <<>>
    /\ pc \in AfterCompare =>
          /\ (match = 0) <=> (C4_Differ # {})
          /\ match \in {0, 1}
          /\ IF C4_Differ # {}
             THEN LET m == Min(C4_Differ)
                  IN  /\ MismatchLines =
                            << <<"Mismatch at index", m,
                                 Elem(mem.hw_result, m),
                                 Elem(mem.sw_result, m)>> >>
                      /\ compared = 0 .. m
             ELSE /\ MismatchLines = <<>>
                  /\ compared = 0 .. vector_size - 1

C4_Witness ==
    /\ pc = "report"
    /\ match = 0
    /\ Cardinality(C4_Differ) >= 2
    /\ Min(C4_Differ) >= 1
    /\ Len(MismatchLines) = 1

(* C5: main runs the benchmark at size 8, then the benchmark at size 1024, *)
(* then the scaling table, in this order, and returns 0; no step is        *)
(* skipped or reordered and no other status is returned.                   *)
C5_ExpectedSteps ==
    << <<"Running tests with", "standard", 8>>, <<"Vector Size", 8>>,
       <<"Running tests with", "large", 1024>>, <<"Vector Size", 1024>>,
       <<"Scaling Performance (simulated):">> >>

C5_MainSequence ==
    /\ MainAtLargeCompare
    /\ IsPrefix(Steps, C5_ExpectedSteps)
    /\ exitStatus \in {-1, 0}
    /\ (exitStatus = 0) <=> (pc = "done")
    /\ pc \in {"main_return", "done"} =>
          /\ Steps = C5_ExpectedSteps
          /\ Len(Rows) = 10

C5_Witness ==
    /\ pc = "done"
    /\ exitStatus = 0
    /\ Steps = C5_ExpectedSteps

(* C6: a mismatch detected by run_performance_test is followed by the size *)
(* line, the two timing lines, the speedup line and "Results do not        *)
(* match"; the call returns, the program goes on with the remaining steps  *)
(* and exits with status 0.                                                *)
C6_ReportAfter(k) ==
    /\ Len(out) >= k + 5
    /\ out[k + 1] = <<"Vector Size", vector_size>>
    /\ out[k + 2] = <<"Hardware time">>
    /\ out[k + 3] = <<"Software time">>
    /\ out[k + 4] = <<"Speedup">>
    /\ out[k + 5] = <<"Results", "do not match">>

C6_MismatchDoesNotAbort ==
    /\ exitStatus \in {-1, 0}
    /\ (exitStatus = 0) <=> (pc = "done")
    /\ match = 0 =>
          /\ Len(MismatchLines) = 1
          /\ pc # "done" => ENABLED Next
          /\ \A k \in DOMAIN out :
                IsMismatchLine(out[k]) =>
                   IF pc = "report" THEN k = Len(out) ELSE C6_ReportAfter(k)
    /\ pc \in {"main_return", "done"} =>
          /\ Steps = C5_ExpectedSteps
          /\ Len(Rows) = 10

C6_Witness ==
    /\ pc = "done"
    /\ exitStatus = 0
    /\ match = 0
    /\ Len(MismatchLines) = 1

(* C7: each call of run_performance_test allocates exactly four buffers,   *)
(* accesses them only while allocated and frees each exactly once before   *)
(* it returns, also when the comparison stops at a mismatch; after the     *)
(* return none of them is allocated.                                       *)
C7_BuffersScoped ==
    /\ fault = FALSE
    /\ \A b \in Buffers : mallocs[b] <= 1 /\ frees[b] <= mallocs[b]
    /\ live = {b \in Buffers : mallocs[b] = 1 /\ frees[b] = 0}
    /\ pc \in PostInit \cup {"init_loop"} => live = Buffers
    /\ pc \in AfterCall =>
          /\ live = {}
          /\ \A b \in Buffers : mallocs[b] = 1 /\ frees[b] = 1

C7_Witness ==
    /\ pc = "return"
    /\ match = 0
    /\ live = {}
    /\ \A b \in Buffers : frees[b] = 1

(* C8: show_scaling_performance prints one row for each size 8, 16, ...,   *)
(* 4096, ten rows in increasing order, and each row's speedup is           *)
(* size * size / (size + 8) to two decimals: 4.00 for size 8 and 4088.02   *)
(* for size 4096.                                                          *)
C8_Size(k) == 2 ^ (k + 2)

\* h hundredths is s * s / (s + 8) rounded to two decimals
C8_IsSpeedup(s, h) == 2 * Abs(100 * s * s - h * (s + 8)) <= s + 8

C8_ScalingTable ==
    /\ Len(Rows) <= 10
    /\ \A k \in 1 .. Len(Rows) :
          /\ Rows[k][2] = C8_Size(k)
          /\ C8_IsSpeedup(Rows[k][2], Rows[k][3])
    /\ \A k \in 1 .. 10 : C8_IsSpeedup(C8_Size(k), TableRow(C8_Size(k))[3])
    /\ pc = "scaling_loop" => size = C8_Size(Len(Rows) + 1)
    /\ pc \in {"main_return", "done"} =>
          /\ Len(Rows) = 10
          /\ Rows[1] = <<"row", 8, 400>>
          /\ Rows[10] = <<"row", 4096, 408802>>

C8_Witness ==
    /\ pc = "done"
    /\ Len(Rows) = 10
    /\ Rows[10][2] = 4096

(* C9: from the end of the initialisation until the buffers are freed      *)
(* vector_a and vector_b keep their initial contents, and every kernel     *)
(* call, hardware or software, reads the same pair of input vectors.       *)
C9_InputsUnchanged ==
    /\ pc \in PostInit =>
          /\ mem.vector_a = InputA(vector_size)
          /\ mem.vector_b = InputB(vector_size)
          /\ inputsRead \subseteq {<<mem.vector_a, mem.vector_b>>}
    /\ Cardinality(inputsRead) <= 1
    /\ hwCalls + swCalls > 0 => Cardinality(inputsRead) = 1

C9_Witness ==
    /\ pc = "sw_end"
    /\ vector_size > 0
    /\ swCalls = NUM_TESTS
    /\ inputsRead = {<<InputA(vector_size), InputB(vector_size)>>}

(* C10: in a call of run_performance_test the hardware kernel runs exactly *)
(* 10,000 times, then the software kernel exactly 10,000 times; the clock  *)
(* is sampled four times, right before and right after each batch, and the *)
(* comparison starts after both batches.                                   *)
C10_BatchesAndClock ==
    /\ pc \in {"malloc_a", "malloc_b", "malloc_hw", "malloc_sw", "init_loop",
               "hw_start"} =>
          clockSamples = 0 /\ hwCalls = 0 /\ swCalls = 0
    /\ pc = "hw_loop" =>
          clockSamples = 1 /\ hwCalls = j /\ j <= 10000 /\ swCalls = 0
    /\ pc = "hw_end" =>
          clockSamples = 1 /\ hwCalls = 10000 /\ swCalls = 0
    /\ pc = "sw_start" =>
          clockSamples = 2 /\ hwCalls = 10000 /\ swCalls = 0
    /\ pc = "sw_loop" =>
          clockSamples = 3 /\ hwCalls = 10000 /\ swCalls = j /\ j <= 10000
    /\ pc = "sw_end" =>
          clockSamples = 3 /\ hwCalls = 10000 /\ swCalls = 10000
    /\ pc \in {"cmp_init", "cmp_loop"} \cup AfterCompare =>
          clockSamples = 4 /\ hwCalls = 10000 /\ swCalls = 10000
    /\ compared # {} => hwCalls = 10000 /\ swCalls = 10000

C10_Witness ==
    /\ pc = "cmp_init"
    /\ vector_size > 0
    /\ hwCalls = 10000
    /\ swCalls = 10000
    /\ clockSamples = 4
====
